---------------------------- MODULE Spec2Model ----------------------------
(***************************************************************************)
(* Optimal binary search tree builder (OBST.h, Tree.h, Vector.h).          *)
(*                                                                         *)
(* The model follows OBST::generateTheOBST step by step: the tables are    *)
(* allocated, initializeLoop writes the base cases, computeOBST fills one  *)
(* cell (i, j) per step with the bounded root search, and convertToTree    *)
(* rebuilds the tree from the root table.  Vectors are functions on        *)
(* 0..len-1, as in the C++ code; Vector::operator[] throws out_of_range    *)
(* outside that domain.  Probabilities are floats in the code; the model   *)
(* uses small integers, which float arithmetic represents exactly.         *)
(***************************************************************************)
EXTENDS Integers, Sequences, FiniteSets, TLC

VARIABLES
  labels,   \* Vector<std::string> labels, a function on 0..len-1
  p,        \* Vector<float> p, p[0] unused
  q,        \* Vector<float> q
  pc,       \* position inside generateTheOBST
  n,        \* int n = p.size() - 1
  E,        \* cost table
  W,        \* weight table
  Root,     \* root table
  l,        \* computeOBST: length of the subtree of the current cell
  i,        \* computeOBST: start of the subtree of the current cell
  heap,     \* every TreeNode allocated with new, in allocation order
  tree,     \* Tree::root of the returned Tree (0 is nullptr)
  cells,    \* number of executions of the body of the (l, i) loops
  handler,  \* the CLI handler that runs or ran last
  useQ,     \* CLI::useQ
  trees,    \* Tree::root of every named Tree object (NoTree: no such object)
  fault,    \* the first undefined memory access made so far, or "none"
  out,      \* what displayTables printed and which cells it read
  vecs      \* Vector objects: the stored elements, cap, and the slots of data

\* The state of generateTheOBST and of the vectors it is called with.
buildVars == <<labels, p, q, pc, n, E, W, Root, l, i, heap, tree, cells>>

\* The state of the callers: the CLI, the Tree objects, the Vector objects.
callerVars == <<handler, useQ, trees, fault, out, vecs>>

vars == <<labels, p, q, pc, n, E, W, Root, l, i, heap, tree, cells,
          handler, useQ, trees, fault, out, vecs>>

---------------------------------------------------------------------------
(* Bounds of the model. *)

\* Largest number of keys of a valid input.
MaxN == 5
\* Largest total weight sum(p) + sum(q) of a valid input, in integer units.
MaxWeight == 4
\* Largest length of labels (and of p, q minus one) of an unvalidated input.
MaxLen == 2

\* <cstdint> INT32_MAX.  Stored in a float it is 2^31; every cost the model
\* reaches is far below it.
INT32_MAX == 2147483647

---------------------------------------------------------------------------
(* Vectors *)

EmptyVec == [x \in {} |-> 0]

\* Vector::size
size(vec) == Cardinality(DOMAIN vec)

\* The guard of Vector::operator[]: index >= len throws std::out_of_range.
\* The index is a size_t, so a negative int is a huge index and throws too.
InRange(vec, index) == index \in DOMAIN vec

\* Vector::resize on a fresh inner vector: new elements are T().
resize(new_size) == [c \in 0..(new_size - 1) |-> 0]

\* Utils::create2D
create2D(rows, cols) == [r \in 0..(rows - 1) |-> resize(cols)]

\* Float addition on the values the model reaches: exact on small integers;
\* a sum with the sentinel stays at or above the sentinel (2^31 + x rounds to
\* at least 2^31), which is all the comparison currCost < E[i][j] can see.
FAdd(a, b) == IF a >= INT32_MAX \/ b >= INT32_MAX THEN INT32_MAX ELSE a + b

Set2(T, a, b, v) == [T EXCEPT ![a][b] = v]

\* The named Tree objects: the member CLI::tree and one more Tree of a caller.
Slots == {"cli", "aux"}

\* The value of trees[s] while no Tree object s is alive.
NoTree == -1

\* The named Vector objects of a caller.
VSlots == {"v", "w"}

\* The value of vecs[s] while no Vector object s is alive.
NoVector == [data |-> <<>>, cap |-> -1, alloc |-> -1]

\* F applied to the value of v, with v evaluated once.
With(v, F(_)) == CHOOSE res \in {F(x) : x \in {v}} : TRUE

---------------------------------------------------------------------------
(* Inputs *)

Alphabet == <<"A", "B", "C", "D", "E", "F", "G", "H">>

\* The first k labels of a sorted label sequence.
Labels(k) == [x \in 0..(k - 1) |-> Alphabet[x + 1]]

\* All sequences of k non-negative integers with sum at most t.
RECURSIVE Weights(_, _)
Weights(k, t) ==
  IF k = 0 THEN {<<>>}
  ELSE UNION {{<<v>> \o s : s \in Weights(k - 1, t - v)} : v \in 0..t}

\* A weight sequence w of length 2k+1 read as p[1..k] then q[0..k].
PofW(w, k) == [x \in 0..k |-> IF x = 0 THEN 0 ELSE w[x]]
QofW(w, k) == [x \in 0..k |-> w[k + 1 + x]]

\* Vectors of length 0..MaxLen+1 with entries -1 or 1.
RawVectors ==
  UNION {[0..(len - 1) -> {-1, 1}] : len \in 0..(MaxLen + 1)}

\* The input the callers are meant to pass: lengths agree, nothing negative.
ValidInput ==
  /\ size(p) = size(labels) + 1
  /\ size(q) = size(labels) + 1
  /\ \A x \in DOMAIN p : p[x] >= 0
  /\ \A x \in DOMAIN q : q[x] >= 0

N == size(labels)

---------------------------------------------------------------------------
(* OBST::initializeLoop *)

\* One iteration of the loop over a.  t is [E, W, Root, ok]; ok = FALSE
\* records that an operator[] threw, with the writes made before it kept.
initializeIter(t, a) ==
  IF ~InRange(q, a - 1) THEN [t EXCEPT !.ok = FALSE]
  ELSE
    LET t1 == [t EXCEPT !.E = Set2(t.E, a, a - 1, q[a - 1]),
                        !.W = Set2(t.W, a, a - 1, q[a - 1]),
                        !.Root = Set2(t.Root, a, a, a)]
    IN IF ~InRange(p, a) \/ ~InRange(q, a) THEN [t1 EXCEPT !.ok = FALSE]
       ELSE LET w == FAdd(FAdd(q[a - 1], p[a]), q[a])
            IN [t1 EXCEPT !.W = Set2(t1.W, a, a, w),
                          !.E = Set2(t1.E, a, a, w)]

RECURSIVE initializeFrom(_, _, _)
initializeFrom(t0, a, nn) ==
  With(t0, LAMBDA t :
    IF a > nn \/ ~t.ok THEN t ELSE initializeFrom(initializeIter(t, a), a + 1, nn))

\* The whole function: the loop, then W[N+1][N] = E[N+1][N] = Q[N].
initializeLoop(Et, Wt, Rt, nn) ==
  With(initializeFrom([E |-> Et, W |-> Wt, Root |-> Rt, ok |-> TRUE], 1, nn),
       LAMBDA t :
    IF ~t.ok THEN t
    ELSE IF ~InRange(q, nn) \/ ~InRange(t.W, nn + 1) \/ ~InRange(t.W[nn + 1], nn)
      THEN [t EXCEPT !.ok = FALSE]
      ELSE [t EXCEPT !.E = Set2(t.E, nn + 1, nn, q[nn]),
                     !.W = Set2(t.W, nn + 1, nn, q[nn])])

---------------------------------------------------------------------------
(* OBST::computeOBST, the body of the (l, i) loops for one cell *)

\* Mutant: the dummy weight before key j instead of the one after it.
weightOfMut(Wt, ci, cj) == FAdd(FAdd(Wt[ci][cj - 1], p[cj]), q[cj - 1])

\* W[i][j] = W[i][j - 1] + P[j] + Q[j]
weightOf(Wt, ci, cj) == FAdd(FAdd(Wt[ci][cj - 1], p[cj]), q[cj])

\* The bounds of the root search: r = Root[i][j-1]; r <= Root[i+1][j]
searchLo(Rt, ci, cj) == Rt[ci][cj - 1]

\* Mutant: the upper bound read from the cell of the lower bound.
searchHiMut(Rt, ci, cj) == Rt[ci][cj - 1]

searchHi(Rt, ci, cj) == Rt[ci + 1][cj]

\* float currCost = E[i][r - 1] + E[r + 1][j] + W[i][j]
currCost(Et, wij, ci, cj, r) == FAdd(FAdd(Et[ci][r - 1], Et[r + 1][cj]), wij)

\* E[i][j] = INT32_MAX: the cost before any root was tried
initialCost == INT32_MAX

\* Mutant: the comparison the wrong way round.
improvesMut(c, e) == c > e

\* Mutant: a tie replaces the root found before.
improvesTieMut(c, e) == c <= e

\* if (currCost < E[i][j])
improves(c, e) == c < e

\* The loop over r; cur is [e, root, ok]: E[i][j], Root[i][j] and ok = FALSE
\* once E[i][r - 1] or E[r + 1][j] threw, which ends the loop with the values
\* written so far.
RECURSIVE searchRoot(_, _, _, _, _, _, _)
searchRoot(Et, wij, ci, cj, r, hi, cur0) ==
  With(cur0, LAMBDA cur :
    IF r > hi THEN cur
    ELSE IF ~InRange(Et[ci], r - 1) \/ ~InRange(Et, r + 1) THEN [cur EXCEPT !.ok = FALSE]
    ELSE LET c == currCost(Et, wij, ci, cj, r)
         IN searchRoot(Et, wij, ci, cj, r + 1, hi,
                       IF improves(c, cur.e) THEN [cur EXCEPT !.e = c, !.root = r]
                                             ELSE cur))

computeCell(Et, Wt, Rt, ci, cj) ==
  With(weightOf(Wt, ci, cj), LAMBDA wij :
    With(searchRoot(Et, wij, ci, cj, searchLo(Rt, ci, cj), searchHi(Rt, ci, cj),
                    [e |-> initialCost, root |-> Rt[ci][cj], ok |-> TRUE]),
         LAMBDA best :
      [E |-> Set2(Et, ci, cj, best.e),
       W |-> Set2(Wt, ci, cj, wij),
       Root |-> Set2(Rt, ci, cj, best.root),
       ok |-> best.ok]))

---------------------------------------------------------------------------
(* OBST::buildTreeFromRoot *)

\* Mutant: the key index used as the label index.
labelIndexMut(r) == r

\* labels[r - 1]: labels are 0-indexed, keys 1-indexed
labelIndex(r) == r - 1

\* Returns [heap, node, ok]: the heap after the call, the pointer returned
\* (0 is nullptr) and ok = FALSE when labels[r - 1] threw; the nodes allocated
\* before the throw stay in the heap, owned by nobody.
RECURSIVE buildTreeFromRoot(_, _, _, _)
buildTreeFromRoot(h0, Rt, bi, bj) ==
  With(h0, LAMBDA h :
    IF bi > bj \/ Rt[bi][bj] = 0 THEN [heap |-> h, node |-> 0, ok |-> TRUE]
    ELSE
      LET r == Rt[bi][bj]
          id == Len(h) + 1
      IN IF ~InRange(labels, labelIndex(r)) THEN [heap |-> h, node |-> 0, ok |-> FALSE]
         ELSE
           With(buildTreeFromRoot(
                  Append(h, [key |-> labels[labelIndex(r)], left |-> 0, right |-> 0]),
                  Rt, bi, r - 1),
                LAMBDA lt :
             IF ~lt.ok THEN [heap |-> lt.heap, node |-> 0, ok |-> FALSE]
             ELSE
               With(buildTreeFromRoot([lt.heap EXCEPT ![id].left = lt.node],
                                      Rt, r + 1, bj),
                    LAMBDA rt :
                 IF ~rt.ok THEN [heap |-> rt.heap, node |-> 0, ok |-> FALSE]
                 ELSE [heap |-> [rt.heap EXCEPT ![id].right = rt.node],
                       node |-> id, ok |-> TRUE])))

---------------------------------------------------------------------------
(* Tree: the analysis walks *)

\* Mutant: the branches of the conditional swapped.
MaxMut(a, b) == IF a > b THEN b ELSE a

\* leftHeight > rightHeight ? leftHeight : rightHeight
Max(a, b) == IF a > b THEN a ELSE b

RECURSIVE computeHeight(_)
computeHeight(node) ==
  IF node = 0 THEN 0
  ELSE 1 + Max(computeHeight(heap[node].left), computeHeight(heap[node].right))

RECURSIVE countNodes(_)
countNodes(node) ==
  IF node = 0 THEN 0
  ELSE 1 + countNodes(heap[node].left) + countNodes(heap[node].right)

RECURSIVE countLeafNodes(_)
countLeafNodes(node) ==
  IF node = 0 THEN 0
  ELSE IF heap[node].left = 0 /\ heap[node].right = 0 THEN 1
  ELSE countLeafNodes(heap[node].left) + countLeafNodes(heap[node].right)

RECURSIVE sumOfDepths(_, _)
sumOfDepths(node, depth) ==
  IF node = 0 THEN 0
  ELSE depth + sumOfDepths(heap[node].left, depth + 1)
             + sumOfDepths(heap[node].right, depth + 1)

\* Mutant: the height counted in edges.
getHeightMut == IF tree = 0 THEN 0 ELSE computeHeight(tree) - 1

getHeight == computeHeight(tree)
getTotalNodes == countNodes(tree)
getLeafNodes == countLeafNodes(tree)
isEmpty == tree = 0

\* Mutant: the division without the guard for the empty tree.
getAverageDepthMut == [num |-> sumOfDepths(tree, 0), den |-> countNodes(tree)]

\* The quotient sum / totalNodes as a fraction; 0.0 when there is no node.
getAverageDepth ==
  LET totalNodes == countNodes(tree)
  IN IF totalNodes = 0 THEN [num |-> 0, den |-> 1]
     ELSE [num |-> sumOfDepths(tree, 0), den |-> totalNodes]

---------------------------------------------------------------------------
(* The state machine of OBST::generateTheOBST *)

\* A caller's validated input: k keys, non-negative weights.
CallValid ==
  \E k \in 0..MaxN : \E w \in Weights(2 * k + 1, MaxWeight) :
    /\ labels' = Labels(k)
    /\ p' = PofW(w, k)
    /\ q' = QofW(w, k)

\* The three-key example: p = [_, 3, 3, 1], q = [2, 3, 1, 1].
CallExample ==
  /\ labels' = Labels(3)
  /\ p' = PofW(<<3, 3, 1, 2, 3, 1, 1>>, 3)
  /\ q' = QofW(<<3, 3, 1, 2, 3, 1, 1>>, 3)

\* generateTheOBST is public and takes whatever vectors it is passed.
CallRaw ==
  /\ \E k \in 0..MaxLen : labels' = Labels(k)
  /\ p' \in RawVectors
  /\ q' \in RawVectors

Init ==
  /\ labels = EmptyVec /\ p = EmptyVec /\ q = EmptyVec
  /\ pc = "idle"
  /\ n = 0
  /\ E = EmptyVec /\ W = EmptyVec /\ Root = EmptyVec
  /\ l = 0 /\ i = 0
  /\ heap = <<>>
  /\ tree = 0
  /\ cells = 0
  /\ handler = "none"
  /\ useQ = FALSE
  /\ trees = [s \in Slots |-> IF s = "cli" THEN 0 ELSE NoTree]
  /\ fault = "none"
  /\ out = <<>>
  /\ vecs = [s \in VSlots |-> NoVector]

\* A call of generateTheOBST(p, q, labels).
Call ==
  /\ pc = "idle"
  /\ CallValid \/ CallExample \/ CallRaw
  /\ pc' = "start"
  /\ UNCHANGED <<n, E, W, Root, l, i, heap, tree, cells>>
  /\ UNCHANGED callerVars

\* int n = p.size() - 1 and the three create2D(n + 2, n + 2).
Allocate ==
  /\ pc = "start"
  /\ n' = size(p) - 1
  /\ E' = create2D(size(p) + 1, size(p) + 1)
  /\ W' = create2D(size(p) + 1, size(p) + 1)
  /\ Root' = create2D(size(p) + 1, size(p) + 1)
  /\ pc' = "init"
  /\ UNCHANGED <<labels, p, q, l, i, heap, tree, cells>>
  /\ UNCHANGED callerVars

InitializeLoop ==
  /\ pc = "init"
  /\ \E t \in {initializeLoop(E, W, Root, n)} :
        /\ E' = t.E /\ W' = t.W /\ Root' = t.Root
        /\ pc' = IF t.ok THEN "compute" ELSE "error"
        /\ l' = IF t.ok THEN 2 ELSE l
        /\ i' = IF t.ok THEN 1 ELSE i
  /\ UNCHANGED <<labels, p, q, n, heap, tree, cells>>
  /\ UNCHANGED callerVars

\* One execution of the body of the loops over l and i, and the loop steps.
ComputeCell ==
  /\ pc = "compute"
  /\ l <= n
  /\ \E t \in {computeCell(E, W, Root, i, i + l - 1)} :
        /\ E' = t.E /\ W' = t.W /\ Root' = t.Root
        /\ pc' = IF t.ok THEN pc ELSE "error"
        /\ IF ~t.ok THEN i' = i /\ l' = l
           ELSE IF i + 1 <= n - l + 1 THEN i' = i + 1 /\ l' = l
           ELSE i' = 1 /\ l' = l + 1
  /\ cells' = cells + 1
  /\ UNCHANGED <<labels, p, q, n, heap, tree>>
  /\ UNCHANGED callerVars

\* convertToTree(root, labels, n) once the loops are over.
ConvertToTree ==
  /\ pc = "compute"
  /\ l > n
  /\ \E b \in {buildTreeFromRoot(heap, Root, 1, n)} :
        /\ heap' = b.heap
        /\ tree' = b.node
        /\ pc' = IF b.ok THEN "done" ELSE "error"
  /\ UNCHANGED <<labels, p, q, n, E, W, Root, l, i, cells>>
  /\ UNCHANGED callerVars

Next == Call \/ Allocate \/ InitializeLoop \/ ComputeCell \/ ConvertToTree

Spec == Init /\ [][Next]_vars

\* Once called, generateTheOBST runs on: it is sequential code that nothing
\* suspends.  Whether a caller calls at all is not guaranteed.
FairSpec ==
  /\ Spec
  /\ WF_vars(Allocate) /\ WF_vars(InitializeLoop)
  /\ WF_vars(ComputeCell) /\ WF_vars(ConvertToTree)

---------------------------------------------------------------------------
(* Labels as std::string: sequences of character codes *)

\* The labels a user types: "1", "01", "2", "10", "1a".
LabelUniverse == {<<49>>, <<48, 49>>, <<50>>, <<49, 48>>, <<49, 97>>}

\* std::isdigit
isdigit(c) == c \in 48..57

\* Utils::isNumeric
isNumeric(str) == str # <<>> /\ \A k \in 1..Len(str) : isdigit(str[k])

\* std::stoll on a string of digits.
RECURSIVE stoll(_)
stoll(str) ==
  IF str = <<>> THEN 0
  ELSE 10 * stoll(SubSeq(str, 1, Len(str) - 1)) + (str[Len(str)] - 48)

\* std::string operator<: the first differing character decides, a proper
\* prefix is smaller.
RECURSIVE StringLess(_, _)
StringLess(a, b) ==
  IF b = <<>> THEN FALSE
  ELSE IF a = <<>> THEN TRUE
  ELSE IF a[1] # b[1] THEN a[1] < b[1]
  ELSE StringLess(Tail(a), Tail(b))

\* Mutant: every pair compared lexicographically.
compareStringsMut(a, b) ==
  IF StringLess(a, b) THEN -1 ELSE IF StringLess(b, a) THEN 1 ELSE 0

\* Utils::compareStrings
compareStrings(a, b) ==
  IF isNumeric(a) /\ isNumeric(b)
    THEN IF stoll(a) < stoll(b) THEN -1
         ELSE IF stoll(a) > stoll(b) THEN 1 ELSE 0
    ELSE IF StringLess(a, b) THEN -1
         ELSE IF StringLess(b, a) THEN 1 ELSE 0

---------------------------------------------------------------------------
(* Vector operations on the stored elements, and Utils::sortInputs *)

\* Vector::resize on a vector that holds elements: the first new_size are
\* kept, the new ones are T().
resizeTo(vec, new_size, zero) ==
  [x \in 0..(new_size - 1) |-> IF x \in DOMAIN vec THEN vec[x] ELSE zero]

\* Vector::push_back
push_back(vec, value) ==
  [x \in 0..size(vec) |-> IF x \in DOMAIN vec THEN vec[x] ELSE value]

\* Vector::findOne
findOne(vec, key) ==
  IF \E x \in DOMAIN vec : vec[x] = key
    THEN CHOOSE x \in DOMAIN vec : vec[x] = key /\ \A y \in 0..(x - 1) : vec[y] # key
    ELSE -1

\* Vector::removeByIndex, for an index below len.
removeByIndex(vec, index) ==
  [x \in 0..(size(vec) - 2) |-> IF x < index THEN vec[x] ELSE vec[x + 1]]

\* Mutant: the swap of the labels without the swap of their probabilities.
swapPairMut(st, j) ==
  [st EXCEPT !.L = [st.L EXCEPT ![j] = st.L[j + 1], ![j + 1] = st.L[j]]]

\* _swap(_dataLabels[j], _dataLabels[j + 1]); _swap(_P[j + 1], _P[j + 2]).
\* st is [L, P, ok]; ok = FALSE once _P[j + 1] or _P[j + 2] threw, after the
\* labels were swapped.
swapPair(st, j) ==
  LET L1 == [st.L EXCEPT ![j] = st.L[j + 1], ![j + 1] = st.L[j]]
  IN IF ~InRange(st.P, j + 1) \/ ~InRange(st.P, j + 2)
       THEN [st EXCEPT !.L = L1, !.ok = FALSE]
       ELSE [st EXCEPT !.L = L1,
                       !.P = [st.P EXCEPT ![j + 1] = st.P[j + 2],
                                          ![j + 2] = st.P[j + 1]]]

\* The loop over j of one pass i.
RECURSIVE sortPass(_, _, _)
sortPass(st0, pass, j) ==
  With(st0, LAMBDA st :
    IF j >= size(st.L) - pass - 1 \/ ~st.ok THEN st
    ELSE sortPass(IF compareStrings(st.L[j], st.L[j + 1]) = 1
                    THEN swapPair(st, j) ELSE st,
                  pass, j + 1))

\* The loop over i.
RECURSIVE sortFrom(_, _)
sortFrom(st0, pass) ==
  With(st0, LAMBDA st :
    IF pass >= size(st.L) - 1 \/ ~st.ok THEN st
    ELSE sortFrom(sortPass(st, pass, 0), pass + 1))

\* Utils::sortInputs
sortInputs(dataLabels, P) == sortFrom([L |-> dataLabels, P |-> P, ok |-> TRUE], 0)

---------------------------------------------------------------------------
(* Tree: ownership of the nodes *)

\* The value of a pointer whose node was deleted and its storage given back.
Freed == -2

\* The Tree objects an operation can name: the named ones and the temporary
\* that generateTheOBST returned.
Objects == Slots \cup {"tmp"}

\* The memory an operation works on: the heap, the roots of the named Trees
\* and of the temporary, the nodes deleted so far in the order of the delete
\* calls, and ok = FALSE once a deleted node was read.
Mem == [heap |-> heap, trees |-> trees, tmp |-> tree, dead |-> <<>>, ok |-> TRUE]

RootOf(m, o) == IF o = "tmp" THEN m.tmp ELSE m.trees[o]

SetRoot(m, o, r) ==
  IF o = "tmp" THEN [m EXCEPT !.tmp = r] ELSE [m EXCEPT !.trees[o] = r]

SeqRange(sq) == {sq[k] : k \in 1..Len(sq)}

\* Tree::deleteTree: the nodes it deletes, in the order of the delete calls.
\* A pointer that is neither nullptr nor a node of the heap is deleted as it
\* is.
RECURSIVE deleteTree(_, _)
deleteTree(h, node) ==
  IF node = 0 THEN <<>>
  ELSE IF node \notin DOMAIN h THEN <<node>>
  ELSE deleteTree(h, h[node].left) \o deleteTree(h, h[node].right) \o <<node>>

\* Mutant: the copy shares the source's nodes.
copySubtreeMut(h0, dead, node) == [heap |-> h0, node |-> node, ok |-> TRUE]

\* Tree::copySubtree: returns [heap, node, ok]; ok = FALSE when node was
\* deleted before the copy read it.
RECURSIVE copySubtree(_, _, _)
copySubtree(h0, dead, node) ==
  With(h0, LAMBDA h :
    IF node = 0 THEN [heap |-> h, node |-> 0, ok |-> TRUE]
    ELSE IF node \in dead \/ node \notin DOMAIN h THEN [heap |-> h, node |-> 0, ok |-> FALSE]
    ELSE
      LET id == Len(h) + 1
      IN With(copySubtree(Append(h, [key |-> h[node].key, left |-> 0, right |-> 0]),
                          dead, h[node].left),
              LAMBDA lt :
           With(copySubtree([lt.heap EXCEPT ![id].left = lt.node], dead, h[node].right),
                LAMBDA rt :
             [heap |-> [rt.heap EXCEPT ![id].right = rt.node],
              node |-> id, ok |-> lt.ok /\ rt.ok])))

\* deleteTree(root) of object o.
deleteRoot(m, o) == [m EXCEPT !.dead = m.dead \o deleteTree(m.heap, RootOf(m, o))]

\* Mutant: the destructor leaves the nodes allocated.
destructorMut(m, o) == SetRoot(m, o, IF o = "tmp" THEN 0 ELSE NoTree)

\* Tree::~Tree: the nodes are deleted and the object is gone.
destructor(m, o) == SetRoot(deleteRoot(m, o), o, IF o = "tmp" THEN 0 ELSE NoTree)

\* Tree::Tree(const Tree &other), constructing o.
copyConstruct(m, o, other) ==
  With(copySubtree(m.heap, SeqRange(m.dead), RootOf(m, other)), LAMBDA c :
    SetRoot([m EXCEPT !.heap = c.heap, !.ok = m.ok /\ c.ok], o, c.node))

\* Mutant: copy assignment without the test for self-assignment.
copyAssignMut(m, o, other) == copyConstruct(deleteRoot(m, o), o, other)

\* Tree::operator=(const Tree &other) on o.
copyAssign(m, o, other) ==
  IF o # other THEN copyConstruct(deleteRoot(m, o), o, other) ELSE m

\* Tree::assign
assign(m, o, otherTree) == copyAssign(m, o, otherTree)

\* Mutant: the move leaves the source pointing at the nodes.
moveConstructMut(m, o, other) == SetRoot(m, o, RootOf(m, other))

\* Tree::Tree(Tree &&other), constructing o.
moveConstruct(m, o, other) == SetRoot(SetRoot(m, o, RootOf(m, other)), other, 0)

\* Tree::operator=(Tree &&other) on o.
moveAssign(m, o, other) ==
  IF o # other THEN moveConstruct(deleteRoot(m, o), o, other) ELSE m

\* The memory fault of an operation, if it made one.
MemFault(m) ==
  IF ~m.ok THEN "use after free"
  ELSE IF \/ \E k \in 1..Len(m.dead) : m.dead[k] \notin DOMAIN m.heap
          \/ \E k1, k2 \in 1..Len(m.dead) : k1 # k2 /\ m.dead[k1] = m.dead[k2]
    THEN "double delete"
    ELSE "none"

\* The address of a node once the storage of the deleted nodes is given back:
\* the surviving nodes keep their order.
Renumber(m, x) ==
  IF x <= 0 THEN x
  ELSE IF x \in SeqRange(m.dead) THEN Freed
  ELSE x - Cardinality({y \in SeqRange(m.dead) : y \in DOMAIN m.heap /\ y < x})

\* The heap without the deleted nodes.
Reclaim(m) ==
  LET keep == SelectSeq([k \in 1..Len(m.heap) |-> k], LAMBDA k : k \notin SeqRange(m.dead))
  IN [k \in 1..Len(keep) |->
        [key |-> m.heap[keep[k]].key,
         left |-> Renumber(m, m.heap[keep[k]].left),
         right |-> Renumber(m, m.heap[keep[k]].right)]]

\* The state after an operation on the Trees.
Commit(m) ==
  /\ heap' = Reclaim(m)
  /\ trees' = [s \in Slots |-> Renumber(m, m.trees[s])]
  /\ tree' = Renumber(m, m.tmp)
  /\ fault' = IF fault # "none" THEN fault ELSE MemFault(m)

---------------------------------------------------------------------------
(* The CLI: createTreeFromScratch, addNode, deleteNode (EditTreeScreen.cpp) *)

\* Largest number of labels the model lets the vectors grow to.
MaxKeys == 3
\* Largest number of nodes typed into createTreeFromScratch.
MaxScratch == 2

\* The values readFloatInput returns for a probability p: positive.
PValues == {1, 2}

\* The labels readLabel accepts one after the other into a vector of k
\* labels: any word that is not yet in the vector.
Entered(k) ==
  {e \in [0..(k - 1) -> LabelUniverse] : \A x, y \in 0..(k - 1) : x # y => e[x] # e[y]}

\* The handlers of the CLI.  The vectors labels, p, q belong either to the
\* CLI or to a client that calls the OBST class itself.
CliHandlers == {"none", "createTreeFromScratch", "addNode", "deleteNode"}

\* createTreeFromScratch up to the call of getDataFromUser.
CreateTreeFromScratch ==
  /\ pc = "idle"
  /\ handler \in CliHandlers
  /\ handler' = "createTreeFromScratch"
  /\ labels' = resizeTo(labels, 0, <<>>)
  /\ p' = resizeTo(p, 1, 0)
  /\ q' = resizeTo(q, 1, 0)
  /\ pc' = "read"
  /\ UNCHANGED <<n, E, W, Root, l, i, heap, tree, cells, useQ, trees, fault, out, vecs>>

\* Utils::getDataFromUser and the call of generateTheOBST.  With no node and
\* the answer "y" the prompt reads DataLables[0], which throws.
GetDataFromUser ==
  /\ pc = "read"
  /\ \E k \in 0..MaxScratch : \E e \in Entered(k) : \E pv \in [1..k -> PValues] :
       \E st \in {sortInputs(e, [x \in 0..k |-> IF x = 0 THEN 0 ELSE pv[x]])} :
         /\ labels' = st.L
         /\ p' = st.P
         /\ \/ /\ q' = [x \in 0..k |-> 0]
               /\ useQ' = FALSE
               /\ pc' = "start"
            \/ /\ k = 0
               /\ q' = resizeTo(q, 1, 0)
               /\ useQ' = useQ
               /\ pc' = "error"
            \/ /\ k > 0
               /\ \E v \in 0..1 : q' = [x \in 0..k |-> v]
               /\ useQ' = TRUE
               /\ pc' = "start"
  /\ cells' = 0
  /\ UNCHANGED <<n, E, W, Root, l, i, heap, tree, handler, trees, fault, out, vecs>>

\* CLI::addNode up to the call of generateTheOBST.  With useQ set the handler
\* returns at once and changes nothing.
AddNode ==
  /\ pc = "idle"
  /\ handler \in CliHandlers
  /\ ~useQ
  /\ size(labels) < MaxKeys
  /\ \E newNodeLabel \in LabelUniverse : \E newNodeP \in PValues :
       /\ findOne(labels, newNodeLabel) = -1
       /\ \E st \in {IF trees["cli"] = 0
                       THEN sortInputs([resizeTo(labels, 1, <<>>) EXCEPT ![0] = newNodeLabel],
                                       [resizeTo(p, 2, 0) EXCEPT ![0] = 0, ![1] = newNodeP])
                       ELSE sortInputs(
                              [resizeTo(labels, size(labels) + 1, <<>>)
                                 EXCEPT ![size(labels)] = newNodeLabel],
                              [resizeTo(p, size(labels) + 2, 0)
                                 EXCEPT ![size(labels) + 1] = newNodeP])} :
            /\ labels' = st.L
            /\ p' = st.P
            /\ pc' = IF st.ok THEN "start" ELSE "error"
       /\ q' = IF trees["cli"] = 0
                 THEN [resizeTo(q, 2, 0) EXCEPT ![0] = 0, ![1] = 0]
                 ELSE [resizeTo(q, size(labels) + 2, 0) EXCEPT ![size(labels) + 1] = 0]
  /\ handler' = "addNode"
  /\ cells' = 0
  /\ UNCHANGED <<n, E, W, Root, l, i, heap, tree, useQ, trees, fault, out, vecs>>

\* Mutant: the p of the deleted label's left neighbour removed.
deletedPIndexMut(index) == index

\* p.removeByIndex(index + 1)
deletedPIndex(index) == index + 1

\* CLI::deleteNode up to the call of generateTheOBST.  With useQ set, with an
\* empty tree or with a label that is not there the handler returns and
\* changes nothing.
DeleteNode ==
  /\ pc = "idle"
  /\ handler \in CliHandlers
  /\ ~useQ
  /\ trees["cli"] # 0
  /\ \E nodeToDelete \in LabelUniverse :
       \E index \in {findOne(labels, nodeToDelete)} :
         /\ index # -1
         /\ IF InRange(p, deletedPIndex(index)) /\ InRange(q, index + 1)
              THEN /\ labels' = removeByIndex(labels, index)
                   /\ p' = removeByIndex(p, deletedPIndex(index))
                   /\ q' = removeByIndex(q, index + 1)
                   /\ pc' = "start"
              ELSE /\ labels' = removeByIndex(labels, index)
                   /\ p' = IF InRange(p, deletedPIndex(index))
                             THEN removeByIndex(p, deletedPIndex(index)) ELSE p
                   /\ q' = q
                   /\ pc' = "error"
  /\ handler' = "deleteNode"
  /\ cells' = 0
  /\ UNCHANGED <<n, E, W, Root, l, i, heap, tree, useQ, trees, fault, out, vecs>>

\* The values a caller passes to OBST::addNode for q.
QValues == {0, 1}

\* A client of the OBST class builds the tree of its model: sorted labels,
\* positive p, any q.
ClientCall ==
  /\ pc = "idle"
  /\ handler = "none"
  /\ \E k \in 0..MaxScratch : \E e \in Entered(k) :
       /\ \A x \in 0..(k - 2) : compareStrings(e[x], e[x + 1]) = -1
       /\ labels' = e
       /\ \E pv \in [1..k -> PValues] : p' = [x \in 0..k |-> IF x = 0 THEN 0 ELSE pv[x]]
       /\ q' \in [0..k -> QValues]
  /\ handler' = "generateTheOBST"
  /\ pc' = "start"
  /\ cells' = 0
  /\ UNCHANGED <<n, E, W, Root, l, i, heap, tree, useQ, trees, fault, out, vecs>>

\* OBST::addNode on the vectors of the client, and the rebuild the client
\* makes.
ObstAddNode ==
  /\ pc = "idle"
  /\ handler \notin CliHandlers
  /\ size(labels) < MaxKeys
  /\ \E nodeLabel \in LabelUniverse : \E pv \in PValues : \E qv \in QValues :
       /\ findOne(labels, nodeLabel) = -1
       /\ \E st \in {sortInputs(push_back(labels, nodeLabel), push_back(p, pv))} :
            /\ labels' = st.L
            /\ p' = st.P
            /\ pc' = IF st.ok THEN "start" ELSE "error"
       /\ q' = push_back(q, qv)
  /\ handler' = "OBST::addNode"
  /\ cells' = 0
  /\ UNCHANGED <<n, E, W, Root, l, i, heap, tree, useQ, trees, fault, out, vecs>>

\* tree.assign(OBST::generateTheOBST(p, q, labels, false)) once the build has
\* returned: the tables of the build are gone, the member tree is assigned a
\* copy and the returned Tree is destroyed.
AssignTree ==
  /\ pc = "done"
  /\ handler \in CliHandlers
  /\ Commit(destructor(assign(Mem, "cli", "tmp"), "tmp"))
  /\ E' = EmptyVec /\ W' = EmptyVec /\ Root' = EmptyVec
  /\ pc' = "idle"
  /\ UNCHANGED <<labels, p, q, n, l, i, cells, handler, useQ, out, vecs>>

\* The client keeps the returned Tree: Tree t = generateTheOBST(...) the first
\* time, t = generateTheOBST(...) afterwards.
TakeTree ==
  /\ pc = "done"
  /\ handler \notin CliHandlers
  /\ Commit(IF trees["aux"] = NoTree THEN moveConstruct(Mem, "aux", "tmp")
                                     ELSE moveAssign(Mem, "aux", "tmp"))
  /\ E' = EmptyVec /\ W' = EmptyVec /\ Root' = EmptyVec
  /\ pc' = "idle"
  /\ UNCHANGED <<labels, p, q, n, l, i, cells, handler, useQ, out, vecs>>

EditNext ==
  \/ CreateTreeFromScratch \/ GetDataFromUser \/ AddNode \/ DeleteNode
  \/ ClientCall \/ ObstAddNode
  \/ Allocate \/ InitializeLoop \/ ComputeCell \/ ConvertToTree
  \/ AssignTree \/ TakeTree

\* A session of the edit menu, or a client that edits its model with
\* OBST::addNode.
EditSpec == Init /\ [][EditNext]_vars

---------------------------------------------------------------------------
(* A caller of the Tree class: builds, copies, moves and destroys Trees *)

\* Largest number of keys of a tree built for the Tree operations.
MaxTreeKeys == 3

\* A call of generateTheOBST by the caller: k keys with positive p, q = 0,
\* and labels for all k keys or, unvalidated, for one key fewer.
TreeCall ==
  /\ pc = "idle"
  /\ \E k \in 0..MaxTreeKeys :
       /\ \E pv \in [1..k -> PValues] : p' = [x \in 0..k |-> IF x = 0 THEN 0 ELSE pv[x]]
       /\ q' = [x \in 0..k |-> 0]
       /\ \E m \in {k - 1, k} : m >= 0 /\ labels' = Labels(m)
  /\ handler' = "generateTheOBST"
  /\ pc' = "start"
  /\ cells' = 0
  /\ UNCHANGED <<n, E, W, Root, l, i, heap, tree, useQ, trees, fault, out, vecs>>

\* The caller drops the returned Tree: the temporary is destroyed at the end
\* of the statement.
DropTree ==
  /\ pc = "done"
  /\ Commit(destructor(Mem, "tmp"))
  /\ E' = EmptyVec /\ W' = EmptyVec /\ Root' = EmptyVec
  /\ pc' = "idle"
  /\ UNCHANGED <<labels, p, q, n, l, i, cells, handler, useQ, out, vecs>>

\* What every operation on the named Trees leaves alone.
TreeOpFrame ==
  UNCHANGED <<labels, p, q, pc, n, E, W, Root, l, i, cells, handler, useQ, out, vecs>>

\* Tree s;
TreeConstruct(s) ==
  /\ pc = "idle" /\ trees[s] = NoTree
  /\ Commit(SetRoot(Mem, s, 0))
  /\ TreeOpFrame

\* Tree s(t);
TreeCopyConstruct(s, t) ==
  /\ pc = "idle" /\ trees[s] = NoTree /\ trees[t] # NoTree
  /\ Commit(copyConstruct(Mem, s, t))
  /\ TreeOpFrame

\* s = t;
TreeCopyAssign(s, t) ==
  /\ pc = "idle" /\ trees[s] # NoTree /\ trees[t] # NoTree
  /\ Commit(copyAssign(Mem, s, t))
  /\ TreeOpFrame

\* s.assign(t);
TreeAssign(s, t) ==
  /\ pc = "idle" /\ trees[s] # NoTree /\ trees[t] # NoTree
  /\ Commit(assign(Mem, s, t))
  /\ TreeOpFrame

\* Tree s(std::move(t));
TreeMoveConstruct(s, t) ==
  /\ pc = "idle" /\ trees[s] = NoTree /\ trees[t] # NoTree
  /\ Commit(moveConstruct(Mem, s, t))
  /\ TreeOpFrame

\* s = std::move(t);
TreeMoveAssign(s, t) ==
  /\ pc = "idle" /\ trees[s] # NoTree /\ trees[t] # NoTree
  /\ Commit(moveAssign(Mem, s, t))
  /\ TreeOpFrame

\* The end of the lifetime of s.
TreeDestroy(s) ==
  /\ pc = "idle" /\ trees[s] # NoTree
  /\ Commit(destructor(Mem, s))
  /\ TreeOpFrame

TreeNext ==
  \/ TreeCall \/ Allocate \/ InitializeLoop \/ ComputeCell \/ ConvertToTree
  \/ TakeTree \/ DropTree
  \/ \E s \in Slots : TreeConstruct(s)
  \/ \E s, t \in Slots : TreeCopyConstruct(s, t)
  \/ \E s, t \in Slots : TreeCopyAssign(s, t)
  \/ \E s, t \in Slots : TreeAssign(s, t)
  \/ \E s, t \in Slots : TreeMoveConstruct(s, t)
  \/ \E s, t \in Slots : TreeMoveAssign(s, t)
  \/ \E s \in Slots : TreeDestroy(s)

\* A caller that builds Trees and copies, moves and destroys them.
TreeSpec == Init /\ [][TreeNext]_vars

---------------------------------------------------------------------------
(* Utils::displayTwoDVec and OBST::displayTables *)

\* What displayTwoDVec prints for one table, cell by cell in printing order:
\* for i, j in 1..vec.size() - 1 a dash when i - j > 0, else vec[i][j].  ok
\* records whether the read of vec[i][j] was inside the vector.
displayTwoDVec(name, vec) ==
  LET dn == size(vec) - 1
  IN [k \in 1..(dn * dn) |->
        LET di == ((k - 1) \div dn) + 1
            dj == ((k - 1) % dn) + 1
        IN IF di - dj > 0
             THEN [table |-> name, i |-> di, j |-> dj, dash |-> TRUE, ok |-> TRUE, value |-> 0]
             ELSE IF InRange(vec, di) /\ InRange(vec[di], dj)
               THEN [table |-> name, i |-> di, j |-> dj, dash |-> FALSE, ok |-> TRUE,
                     value |-> vec[di][dj]]
               ELSE [table |-> name, i |-> di, j |-> dj, dash |-> FALSE, ok |-> FALSE,
                     value |-> 0]]

\* The three tables in the order displayTables prints them.
displayTables(Et, Wt, Rt) ==
  displayTwoDVec("E", Et) \o displayTwoDVec("W", Wt) \o displayTwoDVec("Root", Rt)

\* if (_displayTables) displayTables(e, w, root): taken between computeOBST
\* and convertToTree when the caller passed _displayTables = true.
DisplayTables ==
  /\ pc = "compute"
  /\ l > n
  /\ out = <<>>
  /\ out' = displayTables(E, W, Root)
  /\ UNCHANGED buildVars
  /\ UNCHANGED <<handler, useQ, trees, fault, vecs>>

DisplayNext ==
  \/ Call \/ Allocate \/ InitializeLoop \/ ComputeCell \/ DisplayTables \/ ConvertToTree

\* generateTheOBST with the flag _displayTables left to the caller.
DisplaySpec == Init /\ [][DisplayNext]_vars

---------------------------------------------------------------------------
(* Vector: data, cap and len, and the storage new T[...] returned *)

\* Largest len the model lets a Vector reach, and largest cap.
MaxVecLen == 3
MaxVecCap == 4

\* The elements stored: T() is 0, a pushed value is 1.
VecValues == {0, 1}

\* A Vector is [data, cap, alloc]: data holds the len elements, alloc is the
\* number of slots of the array data points to (0 for nullptr).

\* Vector(size_t initial_size)
VectorNew(initial_size) ==
  [data |-> resizeTo(EmptyVec, initial_size, 0), cap |-> initial_size, alloc |-> initial_size]

\* Vector(const Vector &other), and the body of operator=(const Vector &):
\* new T[other.len], cap = other.cap, len = other.len.
VectorCopy(other) ==
  [data |-> other.data, cap |-> other.cap, alloc |-> size(other.data)]

\* The state a Vector is left in when moved from.
VectorMovedFrom == [data |-> EmptyVec, cap |-> 0, alloc |-> 0]

\* Vector::resize.  past = TRUE when data[i] = T() is written at an i that is
\* not a slot of the array.
VectorResize(v, new_size) ==
  LET grow == new_size > v.cap
      new_cap == IF new_size > v.cap * 2 THEN new_size
                 ELSE IF v.cap * 2 = 0 THEN 1 ELSE v.cap * 2
      slots == IF grow THEN new_cap ELSE v.alloc
  IN [vec |-> [data |-> resizeTo(v.data, new_size, 0),
               cap |-> IF grow THEN new_cap ELSE v.cap,
               alloc |-> slots],
      past |-> \E x \in size(v.data)..(new_size - 1) : x >= slots]

\* Vector::push_back.  past = TRUE when data[len++] = value is written at an
\* index that is not a slot of the array.
VectorPushBack(v, value) ==
  LET grow == size(v.data) >= v.cap
      new_cap == IF v.cap = 0 THEN 1 ELSE v.cap * 2
      slots == IF grow THEN new_cap ELSE v.alloc
  IN [vec |-> [data |-> push_back(v.data, value),
               cap |-> IF grow THEN new_cap ELSE v.cap,
               alloc |-> slots],
      past |-> size(v.data) >= slots]

\* Vector::removeByIndex for index < len: the elements move down, --len.
VectorRemoveByIndex(v, index) == [v EXCEPT !.data = removeByIndex(v.data, index)]

\* What an operation on the Vectors leaves alone.
VecFrame == UNCHANGED buildVars /\ UNCHANGED <<handler, useQ, trees, out>>

\* The outcome of an operation that ends with the Vector s equal to r.vec: a
\* write past the array is undefined behaviour, the run may stop at it or go
\* on with the write done.
VecCommit(s, r) ==
  IF r.past
    THEN /\ fault' = "write past the allocated storage"
         /\ vecs' = vecs \/ vecs' = [vecs EXCEPT ![s] = r.vec]
    ELSE /\ fault' = fault
         /\ vecs' = [vecs EXCEPT ![s] = r.vec]

VecConstruct(s) ==
  /\ fault = "none" /\ vecs[s] = NoVector
  /\ \E k \in 0..MaxVecLen : vecs' = [vecs EXCEPT ![s] = VectorNew(k)]
  /\ UNCHANGED fault /\ VecFrame

VecCopyConstruct(s, t) ==
  /\ fault = "none" /\ vecs[s] = NoVector /\ vecs[t] # NoVector
  /\ vecs' = [vecs EXCEPT ![s] = VectorCopy(vecs[t])]
  /\ UNCHANGED fault /\ VecFrame

\* operator=(const Vector &other): nothing when this == &other.
VecCopyAssign(s, t) ==
  /\ fault = "none" /\ vecs[s] # NoVector /\ vecs[t] # NoVector
  /\ vecs' = IF s = t THEN vecs ELSE [vecs EXCEPT ![s] = VectorCopy(vecs[t])]
  /\ UNCHANGED fault /\ VecFrame

VecMoveConstruct(s, t) ==
  /\ fault = "none" /\ vecs[s] = NoVector /\ vecs[t] # NoVector
  /\ vecs' = [vecs EXCEPT ![s] = vecs[t], ![t] = VectorMovedFrom]
  /\ UNCHANGED fault /\ VecFrame

\* operator=(Vector &&other): nothing when this == &other.
VecMoveAssign(s, t) ==
  /\ fault = "none" /\ vecs[s] # NoVector /\ vecs[t] # NoVector
  /\ vecs' = IF s = t THEN vecs ELSE [vecs EXCEPT ![s] = vecs[t], ![t] = VectorMovedFrom]
  /\ UNCHANGED fault /\ VecFrame

VecResize(s) ==
  /\ fault = "none" /\ vecs[s] # NoVector
  /\ \E k \in 0..MaxVecLen :
       /\ VectorResize(vecs[s], k).vec.cap <= MaxVecCap
       /\ VecCommit(s, VectorResize(vecs[s], k))
  /\ VecFrame

VecPushBack(s) ==
  /\ fault = "none" /\ vecs[s] # NoVector
  /\ size(vecs[s].data) < MaxVecLen
  /\ \E x \in VecValues :
       /\ VectorPushBack(vecs[s], x).vec.cap <= MaxVecCap
       /\ VecCommit(s, VectorPushBack(vecs[s], x))
  /\ VecFrame

\* removeByIndex(index); an index >= len throws before anything is changed.
VecRemoveByIndex(s) ==
  /\ fault = "none" /\ vecs[s] # NoVector
  /\ \E index \in 0..(size(vecs[s].data) - 1) :
       vecs' = [vecs EXCEPT ![s] = VectorRemoveByIndex(vecs[s], index)]
  /\ UNCHANGED fault /\ VecFrame

\* ~Vector
VecDestroy(s) ==
  /\ fault = "none" /\ vecs[s] # NoVector
  /\ vecs' = [vecs EXCEPT ![s] = NoVector]
  /\ UNCHANGED fault /\ VecFrame

VecNext ==
  \/ \E s \in VSlots : VecConstruct(s)
  \/ \E s, t \in VSlots : VecCopyConstruct(s, t)
  \/ \E s, t \in VSlots : VecCopyAssign(s, t)
  \/ \E s, t \in VSlots : VecMoveConstruct(s, t)
  \/ \E s, t \in VSlots : VecMoveAssign(s, t)
  \/ \E s \in VSlots : VecResize(s)
  \/ \E s \in VSlots : VecPushBack(s)
  \/ \E s \in VSlots : VecRemoveByIndex(s)
  \/ \E s \in VSlots : VecDestroy(s)

\* Two Vector objects under any sequence of their operations.
VecSpec == Init /\ [][VecNext]_vars

---------------------------------------------------------------------------
(* Reference definitions used by the properties *)

Done == pc = "done"

RECURSIVE SumRange(_, _, _)
SumRange(f, lo, hi) == IF lo > hi THEN 0 ELSE f[lo] + SumRange(f, lo + 1, hi)

\* sum(p[a..b]) + sum(q[a-1..b]) by independent summation.
WeightSum(a, b) == SumRange(p, a, b) + SumRange(q, a - 1, b)

SetMin(S) == CHOOSE x \in S : \A y \in S : x <= y
SetMax(S) == CHOOSE x \in S : \A y \in S : x >= y

\* The expected search cost of the best tree on keys a..b, by exhaustive
\* search over the root of every subrange: an empty range before key a costs
\* q[a-1], a range with root r costs its two subranges plus its weight.
RECURSIVE MinCost(_, _)
MinCost(a, b) ==
  IF a > b THEN q[a - 1]
  ELSE SetMin({MinCost(a, r - 1) + MinCost(r + 1, b) + WeightSum(a, b) : r \in a..b})

\* Every binary search tree shape on keys a..b, as <<left, root key, right>>,
\* the empty shape being <<>>.
RECURSIVE Shapes(_, _)
Shapes(a, b) ==
  IF a > b THEN {<<>>}
  ELSE UNION {{<<lt, r, rt>> : lt \in Shapes(a, r - 1), rt \in Shapes(r + 1, b)} : r \in a..b}

\* The expected number of comparisons of one shape on keys a..b whose root is
\* at depth d: a key at depth d takes d + 1 comparisons, a miss that falls off
\* the tree below depth d - 1 takes d (the convention of the textbook example).
RECURSIVE ShapeCost(_, _, _, _)
ShapeCost(t, a, b, d) ==
  IF t = <<>> THEN q[a - 1] * d
  ELSE p[t[2]] * (d + 1) + ShapeCost(t[1], a, t[2] - 1, d + 1)
                         + ShapeCost(t[3], t[2] + 1, b, d + 1)

IsExample == labels = Labels(3) /\ p = PofW(<<3, 3, 1, 2, 3, 1, 1>>, 3)
                                /\ q = QofW(<<3, 3, 1, 2, 3, 1, 1>>, 3)


\* The labels as a sequence 1..N.
LabelSeq == [k \in 1..N |-> labels[k - 1]]

\* The keys of the subtree at node, left subtree first.
RECURSIVE InOrder(_)
InOrder(node) ==
  IF node = 0 THEN <<>>
  ELSE InOrder(heap[node].left) \o <<heap[node].key>> \o InOrder(heap[node].right)

\* The subtree at node is the tree the root table prescribes for keys a..b.
RECURSIVE Covers(_, _, _)
Covers(node, a, b) ==
  IF a > b THEN node = 0
  ELSE /\ node # 0
       /\ Root[a][b] \in a..b
       /\ heap[node].key = labels[Root[a][b] - 1]
       /\ Covers(heap[node].left, a, Root[a][b] - 1)
       /\ Covers(heap[node].right, Root[a][b] + 1, b)

\* The nodes reachable from node.
RECURSIVE NodesOf(_)
NodesOf(node) ==
  IF node = 0 THEN {}
  ELSE {node} \cup NodesOf(heap[node].left) \cup NodesOf(heap[node].right)

\* The number of nodes on the path from the root of the tree down to id.
RECURSIVE Level(_)
Level(id) ==
  IF id = tree THEN 1
  ELSE 1 + Level(CHOOSE x \in NodesOf(tree) : heap[x].left = id \/ heap[x].right = id)

\* The least h with 2^h >= x.
CeilLog2(x) == SetMin({h \in 0..x : 2 ^ h >= x})

KeyRank(key) == CHOOSE k \in 1..Len(Alphabet) : Alphabet[k] = key

IsSearchTree ==
  LET s == InOrder(tree)
  IN \A k \in 1..(Len(s) - 1) : KeyRank(s[k]) < KeyRank(s[k + 1])

AllZero ==
  /\ ValidInput
  /\ \A x \in DOMAIN p : p[x] = 0
  /\ \A x \in DOMAIN q : q[x] = 0

---------------------------------------------------------------------------
(* Properties *)

\* C1: after a build on a valid input, E[1][N] is the minimum over all binary
\* search tree shapes on keys 1..N of the expected search cost given by
\* cost(empty range before key i) = q[i-1],
\* cost(i..j with root r) = cost(i..r-1) + cost(r+1..j) + W[i][j].
C1_OptimalCost == (Done /\ ValidInput) => E[1][N] = MinCost(1, N)

\* C2: after a build on a valid input, Root[i][j-1] <= Root[i][j] <= Root[i+1][j]
\* for all 1 <= i < j <= N.
C2_RootMonotone ==
  (Done /\ ValidInput) =>
    \A a \in 1..N : \A b \in (a + 1)..N :
      Root[a][b - 1] <= Root[a][b] /\ Root[a][b] <= Root[a + 1][b]

\* A build on a valid input where the staircase is strict somewhere and a tie
\* was resolved: two roots of the searched interval give the same cost.
C2_Witness ==
  /\ Done /\ ValidInput /\ N >= 4
  /\ \E a \in 1..N : \E b \in (a + 1)..N :
       /\ Root[a][b - 1] < Root[a][b] /\ Root[a][b] < Root[a + 1][b]
  /\ \E a \in 1..N : \E b \in (a + 1)..N :
       /\ Root[a][b] < Root[a + 1][b]
       /\ currCost(E, W[a][b], a, b, Root[a][b]) = currCost(E, W[a][b], a, b, Root[a][b] + 1)
  /\ \E x \in 1..N : p[x] = 0

\* C3: after a build on a valid input, W[i][j] is the independently computed
\* sum p[i] + ... + p[j] + q[i-1] + ... + q[j] for all 1 <= i <= j <= N.
C3_WeightAdditive ==
  (Done /\ ValidInput) =>
    \A a \in 1..N : \A b \in a..N : W[a][b] = WeightSum(a, b)

\* A build with a cell of three keys or more whose weight counts several
\* non-zero p and q.
C3_Witness ==
  /\ Done /\ ValidInput /\ N >= 3
  /\ W[1][N] = WeightSum(1, N) /\ W[1][N] >= 3
  /\ \E x \in 1..N : p[x] > 0
  /\ \E x \in 1..N : q[x] > 0

\* C4: for labels A, B, C, p = [_, 3, 3, 1], q = [2, 3, 1, 1] the build gives
\* Root[1][3] = 2, the root node of the tree holds "B", and E[1][3] is the
\* minimum expected cost (expected number of comparisons) over the five tree
\* shapes on three keys.
C4_Example ==
  (Done /\ IsExample) =>
    /\ Root[1][3] = 2
    /\ tree # 0 /\ heap[tree].key = "B"
    /\ Cardinality(Shapes(1, 3)) = 5
    /\ E[1][3] = SetMin({ShapeCost(t, 1, 3, 0) : t \in Shapes(1, 3)})

\* The finished build of the example, with the cost the hand calculation gives.
C4_Witness == Done /\ IsExample /\ E[1][3] = 25 /\ Root[1][3] = 2

\* C5: on a valid input the build does not throw and the returned tree covers
\* exactly 1..N: its in-order traversal is labels[0], ..., labels[N-1], the
\* node for root index r carries labels[r-1], its left subtree covers
\* [i, r-1] and its right subtree [r+1, j].
C5_TreeCoversRange ==
  ValidInput =>
    /\ pc # "error"
    /\ Done => (InOrder(tree) = LabelSeq /\ Covers(tree, 1, N))

\* A tree of four keys or more whose root has two non-empty subtrees.
C5_Witness ==
  /\ Done /\ ValidInput /\ N >= 4
  /\ tree # 0 /\ heap[tree].left # 0 /\ heap[tree].right # 0
  /\ InOrder(tree) = LabelSeq

\* C6: for N >= 1 and a valid input, the tree has getTotalNodes() = N and
\* getHeight() between ceil(log2(N+1)) and N inclusive.
C6_NodeCountAndHeight ==
  (Done /\ ValidInput /\ N >= 1) =>
    /\ getTotalNodes = N
    /\ CeilLog2(N + 1) <= getHeight
    /\ getHeight <= N

\* A tree of minimal height on at least three keys, below the upper bound.
C6_Witness ==
  /\ Done /\ ValidInput /\ N >= 3
  /\ getTotalNodes = N
  /\ getHeight = CeilLog2(N + 1) /\ getHeight < N

\* C7 as stated: the height is the number of edges on the longest
\* root-to-leaf path, 0 for the empty tree; a single node has height 0.
C7_HeightCountsEdges ==
  getHeight = IF tree = 0 THEN 0
              ELSE SetMax({Level(id) - 1 : id \in NodesOf(tree)})

\* C7 amended: the height is the number of nodes on the longest root-to-leaf
\* path, 0 for the empty tree; a single node has height 1.
C7_HeightCountsNodes ==
  getHeight = IF tree = 0 THEN 0
              ELSE SetMax({Level(id) : id \in NodesOf(tree)})

\* A tree whose root has subtrees of different heights.
C7_Witness ==
  /\ Done /\ tree # 0
  /\ computeHeight(heap[tree].left) > computeHeight(heap[tree].right) + 1
  /\ heap[tree].right # 0

\* C8: on an input with inconsistent lengths or a negative probability the
\* build fails before any table is allocated and does no partial work: no
\* table exists, no cell is written, no node is created, no tree is returned.
C8_InvalidInputRejected ==
  ~ValidInput =>
    /\ E = EmptyVec /\ W = EmptyVec /\ Root = EmptyVec
    /\ heap = <<>>
    /\ pc # "done"

\* C9: a build with N = 0 is no error, runs no recurrence step, writes only
\* W[1][0] = E[1][0] = q[0], and returns an empty tree with height, node
\* count and leaf count 0 and average depth 0.0.
C9_EmptyBuild ==
  (ValidInput /\ N = 0) =>
    /\ pc # "error"
    /\ cells = 0
    /\ Done =>
         /\ \A a \in 0..1 : \A b \in 0..1 :
              /\ W[a][b] = (IF a = 1 /\ b = 0 THEN q[0] ELSE 0)
              /\ E[a][b] = (IF a = 1 /\ b = 0 THEN q[0] ELSE 0)
              /\ Root[a][b] = 0
         /\ isEmpty /\ heap = <<>>
         /\ getHeight = 0 /\ getTotalNodes = 0 /\ getLeafNodes = 0
         /\ getAverageDepth.num = 0 /\ getAverageDepth.den # 0

\* A finished build with no key and a non-zero q[0].
C9_Witness == Done /\ ValidInput /\ N = 0 /\ q[0] > 0 /\ E[1][0] = q[0]

\* C10: when every p and q is zero the build terminates with E[1][N] = 0 and
\* a binary search tree of exactly N nodes.
C10_ZeroTerminates ==
  AllZero ~> (Done /\ AllZero /\ E[1][N] = 0 /\ getTotalNodes = N /\ IsSearchTree)

\* A finished build of three keys or more with every probability zero.
C10_Witness == Done /\ AllZero /\ N >= 3 /\ E[1][N] = 0 /\ getTotalNodes = N

\* C11: after every sequence of createTreeFromScratch, addNode and deleteNode,
\* and so at every rebuild of the tables, the labels are strictly increasing
\* under compareStrings: every adjacent pair compares as -1, for any distinct
\* labels readLabel accepts, mixed numeric and non-numeric labels and numeric
\* labels with leading zeros included.
C11_LabelsStrictlyIncreasing ==
  pc \in {"idle", "start", "init", "compute", "done"} =>
    \A k \in 0..(size(labels) - 2) : compareStrings(labels[k], labels[k + 1]) = -1

\* The pairs (label, p of the label) of a model.
PairsOf(L, P) == {<<L[x], P[x + 1]>> : x \in DOMAIN L}

\* The vectors are a model of size(labels) labels.
IsModel == size(p) = size(labels) + 1 /\ size(q) = size(labels) + 1

\* C12: addNode (CLI::addNode, OBST::addNode) on a model of k labels re-sorts
\* the labels by compareStrings and puts the new p and the new q at the
\* position that matches the sorted position j of the new label: every old
\* label keeps its p, the new label has the new p, the new q is the entry
\* next to the new key and the old q keep their order; the rebuilt tree has
\* exactly k + 1 nodes.
C12_AddNodeKeepsPairs ==
  /\ [][(IsModel /\ (AddNode \/ ObstAddNode)) =>
          /\ size(labels') = size(labels) + 1
          /\ size(p') = size(labels') + 1
          /\ \A k \in 0..(size(labels') - 2) :
               compareStrings(labels'[k], labels'[k + 1]) # 1
          /\ \E j \in DOMAIN labels' :
               /\ \A x \in DOMAIN labels : labels[x] # labels'[j]
               /\ PairsOf(labels', p') = PairsOf(labels, p) \cup {<<labels'[j], p'[j + 1]>>}
               /\ \/ removeByIndex(q', j + 1) = q
                  \/ removeByIndex(q', j) = q]_vars
  /\ [](pc = "idle" /\ handler = "addNode" =>
          trees["cli"] >= 0 /\ countNodes(trees["cli"]) = size(labels))
  /\ [](pc = "idle" /\ handler = "OBST::addNode" =>
          trees["aux"] >= 0 /\ countNodes(trees["aux"]) = size(labels))

\* The position of a label in a vector of distinct labels.
PosIn(L, v) == CHOOSE x \in DOMAIN L : L[x] = v

\* C13: deleteNode of the label at position idx removes that label and no
\* other, removes p[idx + 1] and one entry of q, so that afterwards
\* p.len = labels.len + 1 and q.len = labels.len + 1, every label left keeps
\* its p, the labels left keep their relative order, and the rebuilt tree has
\* one node fewer (it is empty when the last label is deleted).
C13_DeleteNodeLockstep ==
  /\ [][DeleteNode =>
          \E idx \in DOMAIN labels :
            /\ pc' # "error"
            /\ size(labels') = size(labels) - 1
            /\ {labels'[x] : x \in DOMAIN labels'} =
                 {labels[x] : x \in DOMAIN labels} \ {labels[idx]}
            /\ \A x, y \in DOMAIN labels' :
                 x < y => PosIn(labels, labels'[x]) < PosIn(labels, labels'[y])
            /\ size(p') = size(labels') + 1
            /\ size(q') = size(labels') + 1
            /\ p'[0] = p[0]
            /\ PairsOf(labels', p') = PairsOf(labels, p) \ {<<labels[idx], p[idx + 1]>>}
            /\ \E jq \in DOMAIN q :
                 \A x \in DOMAIN q' : q'[x] = IF x < jq THEN q[x] ELSE q[x + 1]]_vars
  /\ [][(AssignTree /\ handler = "deleteNode") =>
          /\ countNodes(trees["cli"])' = countNodes(trees["cli"]) - 1
          /\ countNodes(trees["cli"])' = size(labels)
          /\ (size(labels) = 0 => trees'["cli"] = 0)]_vars

\* A tree of two nodes left by deleteNode, the two labels with different p.
C13_Witness ==
  /\ pc = "idle" /\ handler = "deleteNode"
  /\ size(labels) = 2 /\ p[1] # p[2]
  /\ countNodes(trees["cli"]) = 2


---------------------------------------------------------------------------
(* The Tree class: copies and ownership *)

\* The tree below node as a value: <<left, key, right>>, <<>> for nullptr.
RECURSIVE TreeValue(_, _)
TreeValue(h, node) ==
  IF node = 0 THEN <<>>
  ELSE IF node \notin DOMAIN h THEN <<"dangling">>
  ELSE <<TreeValue(h, h[node].left), h[node].key, TreeValue(h, h[node].right)>>

\* The addresses of the nodes below node.
RECURSIVE NodesIn(_, _)
NodesIn(h, node) ==
  IF node = 0 THEN {}
  ELSE IF node \notin DOMAIN h THEN {node}
  ELSE {node} \cup NodesIn(h, h[node].left) \cup NodesIn(h, h[node].right)

\* The Tree objects alive in a state, the returned temporary included.
Alive == {s \in Slots : trees[s] # NoTree} \cup {"tmp"}

OwnedBy(o) == NodesIn(heap, IF o = "tmp" THEN tree ELSE trees[o])

\* After s became a copy of t: same shape and labels, the source as it was,
\* no node shared, no invalid access.
CopyPost(s, t) ==
  /\ fault' = "none"
  /\ TreeValue(heap', trees'[s]) = TreeValue(heap, trees[t])
  /\ TreeValue(heap', trees'[t]) = TreeValue(heap, trees[t])
  /\ s # t => NodesIn(heap', trees'[s]) \cap NodesIn(heap', trees'[t]) = {}

\* C14: copying a Tree (copy constructor, copy assignment, assign) gives a
\* deep copy: same shape and labels in freshly allocated nodes, the source
\* unchanged; self-assignment leaves the tree unchanged without an invalid
\* access; destroying or reassigning one tree leaves the other intact.
C14_CopyIsDeep ==
  /\ [][\A s, t \in Slots :
          (TreeCopyConstruct(s, t) \/ TreeCopyAssign(s, t) \/ TreeAssign(s, t))
            => CopyPost(s, t)]_vars
  /\ [][\A s, t \in Slots :
          (/\ s # t
           /\ trees[t] # NoTree
           /\ TreeDestroy(s) \/ (s = "aux" /\ TakeTree))
            => /\ fault' = "none"
               /\ TreeValue(heap', trees'[t]) = TreeValue(heap, trees[t])]_vars

\* Both named trees hold three nodes with the same shape and labels: in this
\* caller the tree "cli" gets nodes only from "aux", so one is a copy.
C14_Witness ==
  /\ trees["cli"] > 0 /\ trees["aux"] > 0
  /\ Cardinality(OwnedBy("cli")) = 3
  /\ TreeValue(heap, trees["cli"]) = TreeValue(heap, trees["aux"])
  /\ OwnedBy("cli") \cap OwnedBy("aux") = {}
  /\ fault = "none"

\* After s took the root of t: t is empty and s holds the nodes t held.
MovePost(s, t) ==
  /\ fault' = "none"
  /\ s # t => /\ trees'[t] = 0
              /\ TreeValue(heap', trees'[s]) = TreeValue(heap, trees[t])
              /\ Len(heap') = Len(heap) - Cardinality(NodesIn(heap, IF trees[s] = NoTree THEN 0 ELSE trees[s]))

\* C15: across builds, copies, moves and destruction every heap node is
\* owned by exactly one Tree object and nothing is released twice or used
\* after its release: no node is leaked. After a move the source is empty and
\* the destination holds exactly the source's nodes, those it held before
\* being released.
C15_SingleOwner ==
  /\ [](/\ fault = "none"
        /\ \A x \in DOMAIN heap : Cardinality({o \in Alive : x \in OwnedBy(o)}) = 1)
  /\ [][\A s, t \in Slots :
          (TreeMoveConstruct(s, t) \/ TreeMoveAssign(s, t)) => MovePost(s, t)]_vars

\* The same as C15 while no build has thrown.
C15_OwnedUntilThrow ==
  /\ [](pc # "error" => /\ fault = "none"
                        /\ \A x \in DOMAIN heap : Cardinality({o \in Alive : x \in OwnedBy(o)}) = 1)
  /\ [][\A s, t \in Slots :
          (TreeMoveConstruct(s, t) \/ TreeMoveAssign(s, t)) => MovePost(s, t)]_vars


---------------------------------------------------------------------------
(* computeOBST: the bounded root search *)

\* The cost of the range a..b with root r, read from the finished tables.
CostAt(a, b, r) == currCost(E, W[a][b], a, b, r)

\* The interval the loop over r scans for the cell (a, b).
Interval(a, b) == searchLo(Root, a, b)..searchHi(Root, a, b)

\* C16: after computeOBST on a valid input, for every cell 1 <= a < b <= N,
\* E[a][b] is the minimum of E[a][r-1] + E[r+1][b] + W[a][b] over r in
\* [Root[a][b-1], Root[a+1][b]] and Root[a][b] is the smallest r of that
\* interval attaining it.
C16_FirstMinimiser ==
  (Done /\ ValidInput) =>
    \A a \in 1..N : \A b \in (a + 1)..N :
      /\ Root[a][b] \in Interval(a, b)
      /\ E[a][b] = CostAt(a, b, Root[a][b])
      /\ \A r \in Interval(a, b) : E[a][b] <= CostAt(a, b, r)
      /\ \A r \in Interval(a, b) : r < Root[a][b] => E[a][b] < CostAt(a, b, r)

\* A finished build in which one cell has two roots of its interval attaining
\* the minimum and another cell has its root above the lower bound.
C16_Witness ==
  /\ Done /\ ValidInput /\ N >= 3
  /\ \E a \in 1..N : \E b \in (a + 1)..N : \E r \in Interval(a, b) :
       r > Root[a][b] /\ CostAt(a, b, r) = E[a][b]
  /\ \E a \in 1..N : \E b \in (a + 1)..N : Root[a][b] > searchLo(Root, a, b)


---------------------------------------------------------------------------
(* The reference engine: computeOBST with the loop over r running from i to j *)

\* W[a][b] of the reference engine: initializeLoop's cells, then
\* W[i][j] = W[i][j - 1] + P[j] + Q[j].
RECURSIVE FullW(_, _)
FullW(a, b) ==
  IF b < a THEN q[a - 1]
  ELSE IF b = a THEN FAdd(FAdd(q[a - 1], p[a]), q[a])
  ELSE FAdd(FAdd(FullW(a, b - 1), p[b]), q[b])

\* E[a][b] of the reference engine: initializeLoop's cells, then the smallest
\* E[a][r - 1] + E[r + 1][b] + W[a][b] over every r in a..b.
RECURSIVE FullE(_, _)
FullE(a, b) ==
  IF b < a THEN q[a - 1]
  ELSE IF b = a THEN FAdd(FAdd(q[a - 1], p[a]), q[a])
  ELSE SetMin({FAdd(FAdd(FullE(a, r - 1), FullE(r + 1, b)), FullW(a, b)) : r \in a..b})

\* C17: on every valid input the engine with the bounded root search and the
\* reference engine searching the full range a..b compute the same E[a][b] and
\* W[a][b] for every cell 1 <= a <= b <= N.
C17_BoundedEqualsFull ==
  (Done /\ ValidInput) =>
    \A a \in 1..N : \A b \in a..N : E[a][b] = FullE(a, b) /\ W[a][b] = FullW(a, b)


---------------------------------------------------------------------------
(* computeOBST and buildTreeFromRoot: the tables stay well formed *)

\* The ranges <<a, b>> buildTreeFromRoot is called with, from the call (a, b)
\* on, read from the finished Root table.
RECURSIVE Visited(_, _)
Visited(a, b) ==
  IF a > b \/ Root[a][b] = 0 THEN {<<a, b>>}
  ELSE {<<a, b>>} \cup Visited(a, Root[a][b] - 1) \cup Visited(Root[a][b] + 1, b)

\* C19: on a valid input the interval of the root search is non-empty at
\* every cell computeOBST computes, nothing throws, and after the build every
\* cell 1 <= a <= b <= N has a <= Root[a][b] <= b and E[a][b] below the
\* INT32_MAX sentinel; buildTreeFromRoot from (1, N) reads Root only at cells
\* 1 <= a <= b <= N, labels only at 0..N-1, and each call it makes is on a
\* range inside, and shorter than, the range of its caller.
C19_TablesWellFormed ==
  ValidInput =>
    /\ pc # "error"
    /\ (pc = "compute" /\ l <= n) =>
          searchLo(Root, i, i + l - 1) <= searchHi(Root, i, i + l - 1)
    /\ Done =>
         /\ \A a \in 1..N : \A b \in a..N :
              Root[a][b] \in a..b /\ E[a][b] < INT32_MAX
         /\ \A c \in Visited(1, N) :
              c[1] <= c[2] =>
                /\ 1 <= c[1] /\ c[2] <= N
                /\ InRange(Root, c[1]) /\ InRange(Root[c[1]], c[2])
                /\ InRange(labels, labelIndex(Root[c[1]][c[2]]))
         /\ Cardinality({c \in Visited(1, N) : c[1] <= c[2]}) = N

\* A finished build of four keys or more in which some cell was searched over
\* an interval of more than one root.
C19_Witness ==
  /\ Done /\ ValidInput /\ N >= 4
  /\ \E a \in 1..N : \E b \in (a + 1)..N :
       searchLo(Root, a, b) < searchHi(Root, a, b)
  /\ Cardinality(Visited(1, N)) = 2 * N + 1


---------------------------------------------------------------------------
(* The table display *)

\* C18: displaying the (N+2)x(N+2) tables reads no cell outside the vectors,
\* prints as a value only cells with 1 <= i <= N+1 and i-1 <= j <= N, and
\* prints the placeholder for every cell outside the region i <= j+1.
C18_DisplayInLogicalRange ==
  \A k \in 1..Len(out) :
    /\ out[k].ok
    /\ ~out[k].dash =>
         /\ 1 <= out[k].i /\ out[k].i <= n + 1
         /\ out[k].i - 1 <= out[k].j /\ out[k].j <= n
    /\ ~(out[k].i <= out[k].j + 1) => out[k].dash

\* The parts of C18 the display keeps: every read is inside the vectors and
\* every printed cell outside i <= j+1 is a dash.
C18_ReadsInsideTables ==
  \A k \in 1..Len(out) :
    /\ out[k].ok
    /\ ~(out[k].i <= out[k].j + 1) => out[k].dash


---------------------------------------------------------------------------
(* Vector: capacity and storage *)

\* C20: after any sequence of construction, copy construction, copy and
\* move assignment, resize, push_back and removeByIndex, every Vector has
\* len <= cap and cap at most the number of slots allocated for data, and no
\* push_back or resize has written past the allocated storage.
C20_CapWithinAllocation ==
  /\ fault = "none"
  /\ \A s \in VSlots :
       vecs[s] # NoVector =>
         size(vecs[s].data) <= vecs[s].cap /\ vecs[s].cap <= vecs[s].alloc

\* The part of C20 that holds: len never exceeds cap, and the elements held
\* never exceed the slots before a write past the storage.
C20_LenWithinCap ==
  \A s \in VSlots :
    vecs[s] # NoVector =>
      /\ size(vecs[s].data) <= vecs[s].cap
      /\ fault = "none" => size(vecs[s].data) <= vecs[s].alloc

====
